---- MODULE Spec2Model ----
(***************************************************************************)
(* Model of utils.py of fragile_thermostat: generate_mock_data, eval_data,  *)
(* generate_plot and generate_pie_chart.                                    *)
(*                                                                          *)
(* Currency amounts are integer cents (66.67 is 6667).  A date string is a  *)
(* sequence of one-character strings ("2024-6-31" is                        *)
(* <<"2","0","2","4","-","6","-","3","1">>).  A DataFrame is a record       *)
(* [columns, rows]: the column names in order and one record per row.       *)
(* DataFrames are objects: heap maps an object to its contents, and data    *)
(* and result are references into heap.                                     *)
(***************************************************************************)
EXTENDS Integers, Sequences, FiniteSets, TLC

VARIABLES
    pc,             \* "create" | "evaluate" | "render" | "raised"
    heap,           \* sequence of DataFrames: heap[ref] is the object's content
    data,           \* the caller's reference to its DataFrame (0: none yet)
    result,         \* the reference eval_data returned last (0: none yet)
    call,           \* the arguments of the last eval_data call
    evals,          \* number of eval_data calls that returned
    fig,            \* the figure the last renderer call returned
    num_customers,  \* the argument of generate_mock_data
    probs,          \* generate_mock_data's list probs (the 25% gate)
    generated       \* the DataFrame as the caller first built it

vars == <<pc, heap, data, result, call, evals, fig, num_customers, probs, generated>>

----------------------------------------------------------------------------
(* Bounds of the model *)

MaxCustomers == 2
MaxEvals == 3
MaxMrrDollars == 100

(* Constants of the program *)

DefaultThreshold == 90
ImpactCutoff == 75
DaysPerMonth == 31
MaxDelinquentDays == 65

device_prices == <<800, 1200, 2000, 3000>>

BaseColumns ==
    <<"pivot_date", "customer_id", "approved_at", "days_delinquent",
      "monthly_recurr_revenue", "device_value">>

DerivedColumns == <<"daily_recurrent_revenue", "cost_to_fragile", "thermostat">>

Range(s) == {s[i] : i \in 1..Len(s)}

----------------------------------------------------------------------------
(* Strings: f-string formatting, str.split and int *)

Digits == <<"0", "1", "2", "3", "4", "5", "6", "7", "8", "9">>

RECURSIVE ToStr(_)
ToStr(n) ==
    IF n < 10 THEN <<Digits[n + 1]>>
    ELSE ToStr(n \div 10) \o <<Digits[(n % 10) + 1]>>

DigitVal(c) == CHOOSE k \in 0..9 : Digits[k + 1] = c

RECURSIVE ToInt(_)
ToInt(s) ==
    IF Len(s) = 0 THEN 0
    ELSE ToInt(SubSeq(s, 1, Len(s) - 1)) * 10 + DigitVal(s[Len(s)])

RECURSIVE SplitAcc(_, _, _, _, _)
SplitAcc(s, sep, i, cur, acc) ==
    IF i > Len(s) THEN Append(acc, cur)
    ELSE IF s[i] = sep THEN SplitAcc(s, sep, i + 1, <<>>, Append(acc, cur))
    ELSE SplitAcc(s, sep, i + 1, Append(cur, s[i]), acc)

Split(s, sep) == SplitAcc(s, sep, 1, <<>>, <<>>)

\* f"2024-{m}-{d}"
FormatDate(m, d) == <<"2", "0", "2", "4", "-">> \o ToStr(m) \o <<"-">> \o ToStr(d)

----------------------------------------------------------------------------
(* Numbers *)

\* round(num / den, 2) on amounts in cents: the nearest cent, a tie to the
\* even cent.
RoundHalfEven(num, den) ==
    LET q == num \div den
        r == num % den
    IN  IF 2 * r < den THEN q
        ELSE IF 2 * r > den THEN q + 1
        ELSE IF q % 2 = 0 THEN q ELSE q + 1

\* random.randint(lo, hi), its outcomes restricted to the set S
RandInt(lo, hi, S) == (lo..hi) \cap S

----------------------------------------------------------------------------
(* DataFrames *)

\* df[col] = vals
SetColumn(df, col, vals) ==
    [columns |-> IF col \in Range(df.columns) THEN df.columns
                 ELSE Append(df.columns, col),
     rows |-> [i \in 1..Len(df.rows) |->
                 [c \in (DOMAIN df.rows[i]) \cup {col} |->
                     IF c = col THEN vals[i] ELSE df.rows[i][c]]]]

Column(df, col) == [i \in 1..Len(df.rows) |-> df.rows[i][col]]

----------------------------------------------------------------------------
(* generate_mock_data *)

\* The outcomes of the random draws the model follows: month and day
\* restrict the randint calls of the dates, unit restricts random.random()
\* (in hundredths, 0..99), delinq restricts randint(0, 65) and price
\* restricts random.choice(device_prices).
SampleDraws ==
    [month |-> {12}, day |-> {30, 31}, unit |-> {75, 76}, delinq |-> {10},
     price |-> {800, 3000}]

\* Every outcome of the four date draws, the other draws fixed
AllDateDraws ==
    [month |-> 1..12, day |-> 1..31, unit |-> {76}, delinq |-> {30},
     price |-> {1200}]

\* Every outcome of the gate, the days and the price, the dates fixed
AllFieldDraws ==
    [month |-> {6}, day |-> {15}, unit |-> 0..99, delinq |-> 0..MaxDelinquentDays,
     price |-> {800, 1200, 2000, 3000}]

\* pivot_dates: one f"2024-{random.randint(1, 12)}-{random.randint(1, 31)}"
\* per customer
PivotDates(n, draws) ==
    [1..n -> {FormatDate(m, d) : m \in RandInt(1, 12, draws.month),
                                 d \in RandInt(1, 31, draws.day)}]

\* ApprovedDate with the day drawn from 1..31 whatever the pivot day
ApprovedDateAnyDay(pivot_date, draws) ==
    LET dates == <<Split(pivot_date, "-")[2], Split(pivot_date, "-")[3]>>
    IN  {FormatDate(am, ad) : am \in RandInt(ToInt(dates[1]), 12, draws.month),
                              ad \in RandInt(1, 31, draws.day)}

\* dates and approved_dates, for one customer: month and day are split off
\* the pivot date string and are the lower ends of the two draws
ApprovedDate(pivot_date, draws) ==
    LET dates == <<Split(pivot_date, "-")[2], Split(pivot_date, "-")[3]>>
    IN  {FormatDate(am, ad) : am \in RandInt(ToInt(dates[1]), 12, draws.month),
                              ad \in RandInt(ToInt(dates[2]), 31, draws.day)}

\* approved_dates: the lists with one approved date per pivot date
RECURSIVE ApprovedDatesUpTo(_, _, _)
ApprovedDatesUpTo(pivot_dates, k, draws) ==
    IF k = 0 THEN {<<>>}
    ELSE {Append(l, a) : l \in ApprovedDatesUpTo(pivot_dates, k - 1, draws),
                         a \in ApprovedDate(pivot_dates[k], draws)}

ApprovedDates(pivot_dates, draws) ==
    ApprovedDatesUpTo(pivot_dates, Len(pivot_dates), draws)

\* probs: 1 if random.random() > 0.75 else 0, per customer
Probs(n, draws) ==
    [1..n -> {IF u > 75 THEN 1 ELSE 0 : u \in RandInt(0, 99, draws.unit)}]

\* DaysDelinquent without the product with p
DaysDelinquentUngated(p, draws) ==
    {[i \in DOMAIN p |-> dd[i]] :
        dd \in [DOMAIN p -> RandInt(0, MaxDelinquentDays, draws.delinq)]}

\* days_delinquent: random.randint(0, 65) per customer, then p * dd
DaysDelinquent(p, draws) ==
    {[i \in DOMAIN p |-> p[i] * dd[i]] :
        dd \in [DOMAIN p -> RandInt(0, MaxDelinquentDays, draws.delinq)]}

\* device_values: random.choice(device_prices) per customer
DeviceValues(n, draws) == [1..n -> Range(device_prices) \cap draws.price]

\* monthly_recurr_revenue: round(d_value / 12, 2), in cents
MonthlyRecurrRevenue(device_values) ==
    [i \in DOMAIN device_values |-> RoundHalfEven(device_values[i] * 100, 12)]

\* CustomerIds counting from 0
CustomerIdsFromZero(n) == [k \in 1..n |-> k - 1]

\* customer_ids: [i+1 for i in range(num_customers)]
CustomerIds(n) == [k \in 1..n |-> (k - 1) + 1]

\* pd.DataFrame(data) of the six lists
MockData(n, pivot_dates, approved_dates, days_delinquent, device_values) ==
    [columns |-> BaseColumns,
     rows |-> [i \in 1..n |->
        [pivot_date |-> pivot_dates[i],
         customer_id |-> CustomerIds(n)[i],
         approved_at |-> approved_dates[i],
         days_delinquent |-> days_delinquent[i],
         monthly_recurr_revenue |-> MonthlyRecurrRevenue(device_values)[i],
         device_value |-> device_values[i]]]]

----------------------------------------------------------------------------
(* eval_data *)

\* MeasureImpact with < for <=
MeasureImpactStrict(cost) ==
    IF cost = 0 THEN "green"
    ELSE IF cost < ImpactCutoff * 100 THEN "yellow"
    ELSE "red"

\* _measure_impact, cost in cents
MeasureImpact(cost) ==
    IF cost = 0 THEN "green"
    ELSE IF cost <= ImpactCutoff * 100 THEN "yellow"
    ELSE "red"

\* DailyRecurrentRevenue cut off after the cent, not rounded
DailyRecurrentRevenueFloor(df) ==
    [i \in 1..Len(df.rows) |-> df.rows[i].monthly_recurr_revenue \div DaysPerMonth]

\* round(data['monthly_recurr_revenue'] / 31, 2)
DailyRecurrentRevenue(df) ==
    [i \in 1..Len(df.rows) |->
        RoundHalfEven(df.rows[i].monthly_recurr_revenue, DaysPerMonth)]

\* CostToFragile added to the cost the frame already has
CostToFragileAccumulated(df) ==
    [i \in 1..Len(df.rows) |->
        (IF "cost_to_fragile" \in DOMAIN df.rows[i]
            THEN df.rows[i].cost_to_fragile ELSE 0)
        + df.rows[i].daily_recurrent_revenue * df.rows[i].days_delinquent]

\* data['daily_recurrent_revenue'] * data['days_delinquent']
CostToFragile(df) ==
    [i \in 1..Len(df.rows) |->
        df.rows[i].daily_recurrent_revenue * df.rows[i].days_delinquent]

\* data.apply(lambda row: _measure_impact(row['cost_to_fragile']), axis=1)
Thermostat(df) ==
    [i \in 1..Len(df.rows) |-> MeasureImpact(df.rows[i].cost_to_fragile)]

\* WithCosts with the daily revenue also stored over the monthly revenue
WithCostsOverwritingRevenue(df) ==
    LET d1 == SetColumn(df, "monthly_recurr_revenue", DailyRecurrentRevenue(df))
        d2 == SetColumn(d1, "daily_recurrent_revenue", Column(d1, "monthly_recurr_revenue"))
    IN  SetColumn(d2, "cost_to_fragile", CostToFragile(d2))

\* The frame after the first two assignments
WithCosts(df) ==
    LET d1 == SetColumn(df, "daily_recurrent_revenue", DailyRecurrentRevenue(df))
    IN  SetColumn(d1, "cost_to_fragile", CostToFragile(d1))

\* The frame after all three assignments
EvalFrame(df) == SetColumn(WithCosts(df), "thermostat", Thermostat(WithCosts(df)))

----------------------------------------------------------------------------
(* generate_plot and generate_pie_chart *)

\* legend_labels / labels, and colors
labels == [green |-> "No Impact", yellow |-> "Medium Impact", red |-> "High Impact"]

colors == [green |-> "green", yellow |-> "yellow", red |-> "red"]

Count(col, v) == Cardinality({i \in 1..Len(col) : col[i] = v})

FirstAt(col, v) == CHOOSE i \in 1..Len(col) : col[i] = v /\ \A j \in 1..(i - 1) : col[j] # v

\* The entries of value_counts for the values in S: the largest count first,
\* among equal counts the value that occurs first in the column
RECURSIVE SortCounts(_, _)
SortCounts(col, S) ==
    IF S = {} THEN <<>>
    ELSE LET top == CHOOSE v \in S : \A w \in S \ {v} :
                        \/ Count(col, v) > Count(col, w)
                        \/ Count(col, v) = Count(col, w) /\ FirstAt(col, v) < FirstAt(col, w)
         IN  <<[index |-> top, count |-> Count(col, top)]>> \o SortCounts(col, S \ {top})

\* ValueCounts of the yellow and red records only
ValueCountsOfImpacted(col) == SortCounts(col, Range(col) \ {"green"})

\* data['thermostat'].value_counts(): one entry per value that occurs
ValueCounts(col) == SortCounts(col, Range(col))

\* ax.bar(customer_id, cost_to_fragile, color=thermostat) with the f"{days}d"
\* annotations, the ticks and the legend
BarChart(df) ==
    [kind |-> "bar",
     bars |-> [i \in 1..Len(df.rows) |->
                [x |-> df.rows[i].customer_id,
                 height |-> df.rows[i].cost_to_fragile,
                 color |-> df.rows[i].thermostat,
                 text |-> ToStr(df.rows[i].days_delinquent) \o <<"d">>]],
     xticks |-> Column(df, "customer_id"),
     legend |-> {[color |-> c, label |-> labels[c]] : c \in DOMAIN labels}]

\* ax.pie(impact_counts, labels=pie_labels, colors=pie_colors)
PieChart(df) ==
    LET impact_counts == ValueCounts(Column(df, "thermostat"))
    IN  [kind |-> "pie",
         wedges |-> [k \in 1..Len(impact_counts) |->
                        [x |-> impact_counts[k].count,
                         label |-> labels[impact_counts[k].index],
                         color |-> colors[impact_counts[k].index]]]]

----------------------------------------------------------------------------
(* The operations *)

NoFrame == [columns |-> <<>>, rows |-> <<>>]

Init ==
    /\ pc = "create"
    /\ heap = <<>>
    /\ data = 0
    /\ result = 0
    /\ call = [explicit |-> FALSE, threshold |-> DefaultThreshold]
    /\ evals = 0
    /\ fig = [kind |-> "none"]
    /\ num_customers = 0
    /\ probs = <<>>
    /\ generated = NoFrame

\* data = generate_mock_data(n), the random draws being among draws
Generate(n, draws) ==
    /\ pc = "create"
    /\ \E pivot_dates \in PivotDates(n, draws) :
       \E approved_dates \in ApprovedDates(pivot_dates, draws) :
       \E p \in Probs(n, draws) :
       \E days_delinquent \in DaysDelinquent(p, draws) :
       \E device_values \in DeviceValues(n, draws) :
        LET df == MockData(n, pivot_dates, approved_dates, days_delinquent, device_values)
        IN  /\ heap' = <<df>>
            /\ generated' = df
            /\ probs' = p
    /\ data' = 1
    /\ num_customers' = n
    /\ pc' = "evaluate"
    /\ UNCHANGED <<result, call, evals, fig>>

GenerateMockData == \E n \in 0..MaxCustomers : Generate(n, SampleDraws)

\* The threshold arguments the callers pass
ThresholdArgs == {20, 100}

\* eval_data(data) and eval_data(data, threshold=T)
Calls ==
    {[explicit |-> FALSE, threshold |-> DefaultThreshold]}
        \cup {[explicit |-> TRUE, threshold |-> t] : t \in ThresholdArgs}

\* EvalData working on a copy of the caller's frame
EvalDataOnCopy(explicit, threshold) ==
    /\ pc \in {"evaluate", "render"}
    /\ evals < MaxEvals
    /\ call' = [explicit |-> explicit, threshold |-> threshold]
    /\ heap' = Append(heap, EvalFrame(heap[data]))
    /\ result' = Len(heap) + 1
    /\ evals' = evals + 1
    /\ pc' = "render"
    /\ UNCHANGED <<data, fig, num_customers, probs, generated>>

\* result = eval_data(data, threshold).  The three assignments change the
\* caller's object and the function returns that object.  On a frame without
\* rows data.apply(..., axis=1) yields an empty DataFrame of all columns and
\* not a Series, and assigning it to the one column 'thermostat' raises
\* ValueError: the call ends there, with two columns added.
EvalData(explicit, threshold) ==
    /\ pc \in {"evaluate", "render"}
    /\ evals < MaxEvals
    /\ call' = [explicit |-> explicit, threshold |-> threshold]
    /\ \/ /\ Len(heap[data].rows) > 0
          /\ heap' = [heap EXCEPT ![data] = EvalFrame(heap[data])]
          /\ result' = data
          /\ evals' = evals + 1
          /\ pc' = "render"
       \/ /\ Len(heap[data].rows) = 0
          /\ heap' = [heap EXCEPT ![data] = WithCosts(heap[data])]
          /\ pc' = "raised"
          /\ UNCHANGED <<result, evals>>
    /\ UNCHANGED <<data, fig, num_customers, probs, generated>>

EvalDataCall == \E c \in Calls : EvalData(c.explicit, c.threshold)

\* fig, ax = generate_plot(result)
GeneratePlot ==
    /\ pc = "render"
    /\ fig' = BarChart(heap[result])
    /\ UNCHANGED <<pc, heap, data, result, call, evals, num_customers, probs, generated>>

\* fig = generate_pie_chart(result)
GeneratePieChart ==
    /\ pc = "render"
    /\ fig' = PieChart(heap[result])
    /\ UNCHANGED <<pc, heap, data, result, call, evals, num_customers, probs, generated>>

Next == GenerateMockData \/ EvalDataCall \/ GeneratePlot \/ GeneratePieChart

Spec == Init /\ [][Next]_vars

----------------------------------------------------------------------------
(* generate_mock_data(1) over every outcome of its draws: every pair of     *)
(* dates with the other draws fixed, and every outcome of the other draws   *)
(* with the dates fixed.                                                    *)

GenerateAllDates == Generate(1, AllDateDraws)

GenerateAllFields == Generate(1, AllFieldDraws)

NextDraws == GenerateAllDates \/ GenerateAllFields

SpecDraws == Init /\ [][NextDraws]_vars

----------------------------------------------------------------------------
(* eval_data on a frame the caller built: no customer, or one customer with *)
(* any revenue among MrrInputs and any number of days.                      *)

MrrInputs ==
    {100 * d : d \in 0..MaxMrrDollars}
        \cup Range(MonthlyRecurrRevenue(device_prices))

CallerFrames ==
    {[columns |-> BaseColumns, rows |-> <<>>]}
        \cup {[columns |-> BaseColumns,
               rows |-> <<[pivot_date |-> FormatDate(1, 1), customer_id |-> 1,
                           approved_at |-> FormatDate(1, 1), days_delinquent |-> days,
                           monthly_recurr_revenue |-> mrr, device_value |-> 0]>>]
                : mrr \in MrrInputs, days \in 0..MaxDelinquentDays}

InitEval ==
    /\ pc = "evaluate"
    /\ \E df \in CallerFrames :
        /\ heap = <<df>>
        /\ generated = df
        /\ num_customers = Len(df.rows)
        /\ probs = [i \in 1..Len(df.rows) |-> 1]
    /\ data = 1
    /\ result = 0
    /\ call = [explicit |-> FALSE, threshold |-> DefaultThreshold]
    /\ evals = 0
    /\ fig = [kind |-> "none"]

NextEval == EvalDataCall

SpecEval == InitEval /\ [][NextEval]_vars

----------------------------------------------------------------------------
(* Properties *)

Tags == {"green", "yellow", "red"}

Abs(x) == IF x < 0 THEN -x ELSE x

Rows(df) == 1..Len(df.rows)

\* The classification the threshold argument T (dollars) asks for
ClassifyBy(cost, T) ==
    IF cost = 0 THEN "green" ELSE IF cost <= T * 100 THEN "yellow" ELSE "red"

\* A date string read as <<year, month, day>>
ParseDate(s) ==
    LET parts == Split(s, "-")
    IN  <<ToInt(parts[1]), ToInt(parts[2]), ToInt(parts[3])>>

\* a is on or before b: by year, then month, then day
DateLE(a, b) ==
    \/ a[1] < b[1]
    \/ a[1] = b[1] /\ a[2] < b[2]
    \/ a[1] = b[1] /\ a[2] = b[2] /\ a[3] <= b[3]

RECURSIVE SumX(_)
SumX(w) == IF Len(w) = 0 THEN 0 ELSE w[1].x + SumX(Tail(w))

\* C1: after eval_data(data, threshold=T) every record is green when its
\* cost is 0, yellow when 0 < cost <= T and red when cost > T.
C1_TagFollowsThreshold ==
    (pc = "render" /\ call.explicit) =>
        \A i \in Rows(heap[result]) :
            heap[result].rows[i].thermostat
                = ClassifyBy(heap[result].rows[i].cost_to_fragile, call.threshold)

\* C2: after eval_data(data) without a threshold every record has one tag of
\* green, yellow, red; green iff cost = 0, red iff cost > 75.00, yellow iff
\* 0 < cost <= 75.00.
C2_DefaultTagByCost ==
    (pc = "render" /\ ~call.explicit) =>
        \A i \in Rows(heap[result]) :
            LET cost == heap[result].rows[i].cost_to_fragile
                tag == heap[result].rows[i].thermostat
            IN  /\ cost >= 0
                /\ tag \in Tags
                /\ (tag = "green") <=> (cost = 0)
                /\ (tag = "red") <=> (cost > 7500)
                /\ (tag = "yellow") <=> (0 < cost /\ cost <= 7500)

\* A record whose cost is exactly 75.00, evaluated without a threshold
C2_Witness ==
    /\ pc = "render"
    /\ ~call.explicit
    /\ Len(heap[result].rows) = 1
    /\ heap[result].rows[1].cost_to_fragile = 7500
    /\ heap[result].rows[1].thermostat = "yellow"

\* C3: after eval_data the daily revenue of every record is the monthly
\* revenue / 31 to the nearest cent and the cost is the daily revenue times
\* the days delinquent; 100.00 and 30 days give 3.23, 96.90 and red; 66.67
\* and 10 days give 2.15, 21.50 and yellow.
C3_DailyAndCost ==
    pc = "render" =>
        \A i \in Rows(heap[result]) :
            LET r == heap[result].rows[i]
            IN  /\ 2 * Abs(31 * r.daily_recurrent_revenue - r.monthly_recurr_revenue) <= 31
                /\ r.cost_to_fragile = r.daily_recurrent_revenue * r.days_delinquent
                /\ (r.monthly_recurr_revenue = 10000 /\ r.days_delinquent = 30) =>
                        /\ r.daily_recurrent_revenue = 323
                        /\ r.cost_to_fragile = 9690
                        /\ r.thermostat = "red"
                /\ (r.monthly_recurr_revenue = 6667 /\ r.days_delinquent = 10) =>
                        /\ r.daily_recurrent_revenue = 215
                        /\ r.cost_to_fragile = 2150
                        /\ r.thermostat = "yellow"

\* The record of the first example, evaluated
C3_Witness ==
    /\ pc = "render"
    /\ Len(heap[result].rows) = 1
    /\ heap[result].rows[1].monthly_recurr_revenue = 10000
    /\ heap[result].rows[1].days_delinquent = 30
    /\ heap[result].rows[1].daily_recurrent_revenue = 323

\* C4 as claimed: after the first eval_data(data) returned, the object the
\* caller passed in has the fields and values it had before the call.
C4_CallerFrameUnchanged ==
    (pc = "render" /\ evals = 1) => heap[data] = generated

\* C4 as amended: eval_data works in place.  After it returned, the result is
\* the object the caller passed in, that object carries the three derived
\* fields on every record, and its base fields have the values they had
\* before the call.
C4_EvaluatesInPlace ==
    pc = "render" =>
        /\ result = data
        /\ Len(heap) = 1
        /\ Range(DerivedColumns) \subseteq Range(heap[data].columns)
        /\ Len(heap[data].rows) = Len(generated.rows)
        /\ \A i \in Rows(heap[data]) :
            /\ Range(DerivedColumns) \subseteq DOMAIN heap[data].rows[i]
            /\ \A c \in Range(BaseColumns) :
                heap[data].rows[i][c] = generated.rows[i][c]

\* The caller's object of two records after one call: it has changed
C4_Witness ==
    /\ pc = "render"
    /\ evals = 1
    /\ result = data
    /\ Len(heap[data].rows) = 2
    /\ heap[data] # generated
    /\ "thermostat" \in DOMAIN heap[data].rows[2]

\* The base fields and the records of the caller's frame are those of the
\* generation, and its columns are base or derived columns
BaseKept ==
    pc # "create" =>
        /\ Len(heap) = 1
        /\ Len(heap[data].rows) = Len(generated.rows)
        /\ Range(BaseColumns) \subseteq Range(heap[data].columns)
        /\ Range(heap[data].columns) \subseteq Range(BaseColumns) \cup Range(DerivedColumns)
        /\ \A i \in Rows(heap[data]) :
            /\ DOMAIN heap[data].rows[i] = Range(heap[data].columns)
            /\ \A c \in Range(BaseColumns) :
                heap[data].rows[i][c] = generated.rows[i][c]

\* C5: from generation on, every record keeps the base field values of its
\* generation, eval_data adds only the derived fields and adds or removes no
\* record, and a renderer call changes no field of any record.
C5_BaseFieldsKept ==
    /\ []BaseKept
    /\ [][fig' # fig => heap' = heap]_vars

\* Two records, generated, evaluated and drawn as bars
C5_Witness ==
    /\ pc = "render"
    /\ fig.kind = "bar"
    /\ Len(heap[data].rows) = 2
    /\ Len(heap[data].columns) = 9

\* C6: generate_mock_data(n) succeeds for every n >= 0 and returns exactly n
\* records whose customer ids are the distinct integers 1..n; none for n = 0.
C6_ExactlyNCustomers ==
    /\ pc = "create" => \A n \in 0..MaxCustomers : ENABLED Generate(n, SampleDraws)
    /\ pc # "create" =>
        /\ Len(generated.rows) = num_customers
        /\ {generated.rows[i].customer_id : i \in Rows(generated)} = 1..num_customers
        /\ \A i, j \in Rows(generated) :
            i # j => generated.rows[i].customer_id # generated.rows[j].customer_id
        /\ num_customers = 0 => generated.rows = <<>>

\* Two customers generated
C6_Witness ==
    /\ pc = "evaluate"
    /\ num_customers = 2
    /\ Len(generated.rows) = 2
    /\ generated.rows[2].customer_id = 2

\* C7: in every generated record approved_at is on or after pivot_date as
\* calendar dates.
C7_ApprovedNotBeforePivot ==
    pc # "create" =>
        \A i \in Rows(generated) :
            DateLE(ParseDate(generated.rows[i].pivot_date),
                   ParseDate(generated.rows[i].approved_at))

\* A pivot date late in a month and an approval in a later month
C7_Witness ==
    /\ pc = "evaluate"
    /\ Len(generated.rows) = 1
    /\ ParseDate(generated.rows[1].pivot_date) = <<2024, 3, 20>>
    /\ ParseDate(generated.rows[1].approved_at) = <<2024, 11, 25>>

\* C8: in every generated record days_delinquent is in 0..65 and is 0 when
\* the gate is 0, device_value is one of 800, 1200, 2000, 3000, and the
\* monthly revenue is device_value / 12 to the nearest cent, not negative.
C8_FieldRanges ==
    pc # "create" =>
        \A i \in Rows(generated) :
            LET r == generated.rows[i]
            IN  /\ r.days_delinquent \in 0..65
                /\ probs[i] = 0 => r.days_delinquent = 0
                /\ r.device_value \in {800, 1200, 2000, 3000}
                /\ r.monthly_recurr_revenue >= 0
                /\ 2 * Abs(12 * r.monthly_recurr_revenue - 100 * r.device_value) <= 12

\* A customer the gate marks as not delinquent
C8_Witness ==
    /\ pc = "evaluate"
    /\ Len(generated.rows) = 1
    /\ probs[1] = 0
    /\ generated.rows[1].days_delinquent = 0
    /\ generated.rows[1].device_value = 800
    /\ generated.rows[1].monthly_recurr_revenue = 6667

\* C9: the pie chart has one slice for each tag that occurs and none for a
\* tag that does not, a slice counts the records of its tag, and the counts
\* sum to the number of records; one tag alone gives one slice of them all.
C9_PieSlices ==
    fig.kind = "pie" =>
        LET col == Column(heap[result], "thermostat")
            w == fig.wedges
            Of(t) == {i \in 1..Len(col) : col[i] = t}
        IN  /\ \A t \in Tags :
                Cardinality({k \in 1..Len(w) : w[k].color = t})
                    = IF Of(t) = {} THEN 0 ELSE 1
            /\ \A k \in 1..Len(w) :
                /\ w[k].color \in Tags
                /\ w[k].x = Cardinality(Of(w[k].color))
            /\ SumX(w) = Len(heap[result].rows)
            /\ Cardinality(Range(col)) = 1 => Len(w) = 1 /\ w[1].x = Len(col)

\* A pie of a green and a red record
C9_Witness ==
    /\ fig.kind = "pie"
    /\ Len(fig.wedges) = 2
    /\ Range(Column(heap[result], "thermostat")) = {"green", "red"}

\* C10: an eval_data call on a frame already evaluated, with any threshold,
\* leaves every record's derived fields as they were and adds no field and
\* no record.
C10_Idempotent ==
    [][(evals >= 1 /\ evals' = evals + 1) =>
            /\ result' = result
            /\ heap'[result'] = heap[result]]_vars

\* Evaluated at least twice, last with a threshold below the cost of a yellow record
C10_Witness ==
    /\ evals >= 2
    /\ call.explicit
    /\ \E i \in Rows(heap[result]) :
        /\ heap[result].rows[i].thermostat = "yellow"
        /\ heap[result].rows[i].cost_to_fragile > call.threshold * 100

====
